---- MODULE Spec2Model ----
(***************************************************************************)
(* Model of the blog application in src/main.py: the three tables          *)
(* (users, blog_posts, comments), the per-client login session kept by     *)
(* Flask-Login, the admin_only decorator and the route handlers.           *)
(*                                                                         *)
(* Spec      every request is served to completion before the next one     *)
(*           (one action per route handler).                               *)
(* RaceSpec  the register handler is split at its two store round trips    *)
(*           (the lookup of line 177 and the commit of line 194), so that  *)
(*           two register requests can interleave.                         *)
(***************************************************************************)
EXTENDS Integers, FiniteSets, Sequences, TLC

(* ------------------------------ bounds --------------------------------- *)
\* largest primary key the blog_posts table hands out in the model
MaxPostId == 2
\* largest number of rows of the comments table in the model
MaxComments == 2

(* ------------------------------ inputs --------------------------------- *)
\* browsers (each with its own session cookie) and server workers serving requests
Clients   == {"c1"}
Workers   == {"w1", "w2"}
Emails    == {"a@x.com", "b@x.com"}
\* passwords chosen at registration, and passwords tried at login
NewPasswords == {"pw1"}
Passwords == {"pw1", "pw2"}
Names     == {"Ann"}
Salts     == {"s1"}
Titles    == {"T1", "T2"}
Subtitles == {"sub"}
Bodies    == {"body"}
Images    == {"img"}
Dates     == {"November 05, 2026"}
Texts     == {"hi"}
\* the <int:index> of a URL: every key the table can hold, held at the time or not
Indexes   == 1 .. MaxPostId

(* ------------------------------ state ---------------------------------- *)
VARIABLES
    users,       \* table users:      id -> [email, password, name]
    posts,       \* table blog_posts: id -> [author_id, title, subtitle, date, body, img_url]
    comments,    \* table comments:   id -> [author_id, post_id, text]
    session,     \* per client, the user id Flask-Login keeps in the session cookie
    last,        \* the request served last and its response
    inflight,    \* per worker, the register request it holds between lookup and commit
    registered   \* history: emails whose register request ended in the success redirect

vars == <<users, posts, comments, session, last, inflight, registered>>

\* current_user of a request with no user id in its session (AnonymousUserMixin)
Anonymous == 0
\* a NULL foreign key / the None of Query.get and Query.first
None == 0
\* the id the decorator compares with
ADMIN_ID == 1
\* the worker holds no register request between lookup and commit
Idle == [client |-> "", new_user |-> <<>>]

(* ------------------------------ helpers -------------------------------- *)
Max(S) == CHOOSE m \in S : \A k \in S : k <= m

\* INTEGER PRIMARY KEY of the default sqlite store: one more than the largest
\* key in use, 1 for an empty table
NextId(table) == IF DOMAIN table = {} THEN 1 ELSE Max(DOMAIN table) + 1

\* werkzeug generate_password_hash(password, 'pbkdf2:sha256', salt_length=8):
\* the method, the salt drawn for this call, and the digest of (salt, password)
Digest(salt, password) == <<"pbkdf2:sha256", salt, password>>
generate_password_hash(password, salt) ==
    [method |-> "pbkdf2:sha256", salt |-> salt, digest |-> Digest(salt, password)]
\* werkzeug check_password_hash: recompute with the stored salt and compare
check_password_hash(pwhash, password) ==
    pwhash.digest = Digest(pwhash.salt, password)

\* load_user / current_user: the user the session's id resolves to
current_user(c) == IF session[c] \in DOMAIN users THEN session[c] ELSE Anonymous
\* faulty variant: the inline login check of show_post always passes
is_authenticated_always(c) == TRUE
is_authenticated(c) == current_user(c) # Anonymous

\* faulty variant: the lookup never finds the stored user
find_user_by_email_none(email) == None

\* User.query.filter_by(email=email).first()
find_user_by_email(email) ==
    IF \E u \in DOMAIN users : users[u].email = email
    THEN CHOOSE u \in DOMAIN users : users[u].email = email
    ELSE None

\* BlogPost.query.get(index)
get_post(index) == IF index \in DOMAIN posts THEN index ELSE None

\* BlogPost.query.all(): the rows in key order
RECURSIVE SortedIds(_)
SortedIds(S) ==
    IF S = {} THEN <<>>
    ELSE LET m == Max(S) IN Append(SortedIds(S \ {m}), m)
all_posts == SortedIds(DOMAIN posts)

\* faulty variants: the columns are declared without unique=True
email_unique_off(email) == TRUE
title_unique_off(title, except) == TRUE

\* unique=True of User.email and of BlogPost.title, enforced by the store at commit
email_unique(email) == \A u \in DOMAIN users : users[u].email # email
title_unique(title, except) ==
    \A p \in DOMAIN posts \ {except} : posts[p].title # title

(* ------------------------------ responses ------------------------------ *)
NoUrl == <<>>
Render(template) ==
    [code |-> "200", to |-> template, next |-> NoUrl, flash |-> ""]
Redirect(endpoint, nextUrl, message) ==
    [code |-> "302", to |-> endpoint, next |-> nextUrl, flash |-> message]
Forbidden ==
    [code |-> "403", to |-> "", next |-> NoUrl, flash |-> ""]
ServerError(exception) ==
    [code |-> "500", to |-> exception, next |-> NoUrl, flash |-> ""]

NoForm == [key |-> "", body |-> ""]
Served(c, op, index, submit, form, resp) ==
    [client |-> c, op |-> op, ident |-> current_user(c), index |-> index,
     submit |-> submit, form |-> form, resp |-> resp]

\* request.url of the three decorated routes
Url(op, index) == <<op, index>>

(* ------------------------------ Init ----------------------------------- *)
\* db.create_all() on a fresh store: three empty tables, no session
Init ==
    /\ users = <<>>
    /\ posts = <<>>
    /\ comments = <<>>
    /\ session = [c \in Clients |-> Anonymous]
    /\ last = Served("c1", "start", None, FALSE, NoForm, Render(""))
    /\ inflight = [w \in Workers |-> Idle]
    /\ registered = {}

(* ------------------------------ the gate ------------------------------- *)
\* faulty variant: the decorator only asks for a logged-in user
admin_only_any_user(identity) ==
    IF identity = Anonymous THEN "DenyWithRedirect" ELSE "Allow"

\* admin_only's decision on the identity of the request
admin_only(identity) ==
    IF identity = Anonymous THEN "DenyWithRedirect"
    ELSE IF identity # ADMIN_ID THEN "DenyForbidden"
    ELSE "Allow"

\* decorated_function when the decision is a deny: the response of the decorator
\* itself, the wrapped route function is not called
decorated_function_deny(c, op, index) ==
    /\ last' = Served(c, op, index, FALSE, NoForm,
                 IF admin_only(current_user(c)) = "DenyWithRedirect"
                 THEN Redirect("login", Url(op, index), "")
                 ELSE Forbidden)
    /\ UNCHANGED <<users, posts, comments, session, inflight, registered>>

(* ------------------------------ base routes ---------------------------- *)
get_all_posts(c) ==
    /\ last' = Served(c, "get_all_posts", None, FALSE, NoForm, Render("index.html"))
    /\ UNCHANGED <<users, posts, comments, session, inflight, registered>>

about(c) ==
    /\ last' = Served(c, "about", None, FALSE, NoForm, Render("about.html"))
    /\ UNCHANGED <<users, posts, comments, session, inflight, registered>>

\* sent: whether the mail relay accepted the message (send_emails raises otherwise)
contact(c, method, sent) ==
    /\ last' = Served(c, "contact", None, method = "POST", NoForm,
                 IF method = "POST" /\ ~sent THEN ServerError("SMTPException")
                 ELSE Render("contact.html"))
    /\ UNCHANGED <<users, posts, comments, session, inflight, registered>>

\* faulty variant: the comment is built without parent_post
show_post_no_parent(c, index, submit, text) ==
    LET form == IF submit THEN [key |-> text, body |-> ""] ELSE NoForm
    IN  IF submit /\ ~is_authenticated(c)
        THEN /\ last' = Served(c, "show_post", index, submit, form,
                   Redirect("login", NoUrl, "You need to login or register before commenting."))
             /\ UNCHANGED <<users, posts, comments, session, inflight, registered>>
        ELSE IF submit
        THEN /\ NextId(comments) <= MaxComments
             /\ comments' = comments @@
                   (NextId(comments) :> [author_id |-> current_user(c),
                                         post_id |-> None,
                                         text |-> text])
             /\ last' = Served(c, "show_post", index, submit, form, Render("post.html"))
             /\ UNCHANGED <<users, posts, session, inflight, registered>>
        ELSE /\ last' = Served(c, "show_post", index, submit, form, Render("post.html"))
             /\ UNCHANGED <<users, posts, comments, session, inflight, registered>>

show_post(c, index, submit, text) ==
    LET requested_post == get_post(index)
        form == IF submit THEN [key |-> text, body |-> ""] ELSE NoForm
    IN  IF submit /\ ~is_authenticated(c)
        THEN /\ last' = Served(c, "show_post", index, submit, form,
                   Redirect("login", NoUrl, "You need to login or register before commenting."))
             /\ UNCHANGED <<users, posts, comments, session, inflight, registered>>
        ELSE IF submit
        THEN /\ NextId(comments) <= MaxComments
             /\ comments' = comments @@
                   (NextId(comments) :> [author_id |-> current_user(c),
                                         post_id |-> requested_post,
                                         text |-> text])
             /\ last' = Served(c, "show_post", index, submit, form, Render("post.html"))
             /\ UNCHANGED <<users, posts, session, inflight, registered>>
        ELSE /\ last' = Served(c, "show_post", index, submit, form, Render("post.html"))
             /\ UNCHANGED <<users, posts, comments, session, inflight, registered>>

(* ------------------------------ register / login ----------------------- *)
\* db.session.add(new_user); db.session.commit(): the store refuses a second row
\* with the same email (IntegrityError), otherwise the row gets the next key
commit_new_user(c, new_user) ==
    LET form == [key |-> new_user.email, body |-> ""]
    IN  IF email_unique(new_user.email)
        THEN /\ users' = users @@ (NextId(users) :> new_user)
             /\ registered' = registered \cup {new_user.email}
             /\ last' = Served(c, "register", None, TRUE, form,
                               Redirect("get_all_posts", NoUrl, ""))
             /\ UNCHANGED <<posts, comments, session>>
        ELSE /\ last' = Served(c, "register", None, TRUE, form,
                               ServerError("IntegrityError"))
             /\ UNCHANGED <<users, posts, comments, session, registered>>

\* the whole handler, served without interruption
register(c, submit, email, password, name, salt) ==
    /\ IF submit
       THEN LET check_user == find_user_by_email(email)
            IN  IF check_user = None
                THEN commit_new_user(c, [email |-> email,
                                         password |-> generate_password_hash(password, salt),
                                         name |-> name])
                ELSE /\ last' = Served(c, "register", None, TRUE,
                                   [key |-> email, body |-> ""],
                                   Redirect("login", NoUrl,
                                     "You've already signed up with that email, please login."))
                     /\ UNCHANGED <<users, posts, comments, session, registered>>
       ELSE /\ last' = Served(c, "register", None, FALSE, NoForm, Render("register.html"))
            /\ UNCHANGED <<users, posts, comments, session, registered>>
    /\ UNCHANGED inflight

login(c, submit, email, password) ==
    LET form == IF submit THEN [key |-> email, body |-> password] ELSE NoForm
        user == find_user_by_email(email)
    IN  IF submit /\ user # None /\ check_password_hash(users[user].password, password)
        THEN /\ session' = [session EXCEPT ![c] = user]
             /\ last' = Served(c, "login", None, submit, form,
                               Redirect("get_all_posts", NoUrl, ""))
             /\ UNCHANGED <<users, posts, comments, inflight, registered>>
        ELSE /\ last' = Served(c, "login", None, submit, form,
                   IF ~submit THEN Render("login.html")
                   ELSE IF user # None
                   THEN Redirect("login", NoUrl, "Incorrect password, try again.")
                   ELSE Redirect("login", NoUrl, "That email doesn't exist, please try again."))
             /\ UNCHANGED <<users, posts, comments, session, inflight, registered>>

\* faulty variant: logout redirects without calling logout_user()
logout_keeps_session(c) ==
    /\ last' = Served(c, "logout", None, FALSE, NoForm, Redirect("get_all_posts", NoUrl, ""))
    /\ UNCHANGED <<users, posts, comments, session, inflight, registered>>

logout(c) ==
    /\ session' = [session EXCEPT ![c] = Anonymous]
    /\ last' = Served(c, "logout", None, FALSE, NoForm, Redirect("get_all_posts", NoUrl, ""))
    /\ UNCHANGED <<users, posts, comments, inflight, registered>>

(* ------------------------------ post CRUD ------------------------------ *)
new_post(c, submit, title, subtitle, body, img_url, date) ==
    LET form == IF submit THEN [key |-> title, body |-> body] ELSE NoForm
    IN  IF admin_only(current_user(c)) # "Allow"
        THEN decorated_function_deny(c, "new_post", None)
        ELSE IF ~submit
        THEN /\ last' = Served(c, "new_post", None, submit, form, Render("make-post.html"))
             /\ UNCHANGED <<users, posts, comments, session, inflight, registered>>
        ELSE IF ~title_unique(title, None)
        THEN /\ last' = Served(c, "new_post", None, submit, form,
                               ServerError("IntegrityError"))
             /\ UNCHANGED <<users, posts, comments, session, inflight, registered>>
        ELSE /\ NextId(posts) <= MaxPostId
             /\ posts' = posts @@
                   (NextId(posts) :> [author_id |-> current_user(c), title |-> title,
                                      subtitle |-> subtitle, date |-> date,
                                      body |-> body, img_url |-> img_url])
             /\ last' = Served(c, "new_post", None, submit, form,
                               Redirect("get_all_posts", NoUrl, ""))
             /\ UNCHANGED <<users, comments, session, inflight, registered>>

edit_post(c, index, submit, title, subtitle, body, img_url, date) ==
    LET form == IF submit THEN [key |-> title, body |-> body] ELSE NoForm
        post_to_edit == get_post(index)
    IN  IF admin_only(current_user(c)) # "Allow"
        THEN decorated_function_deny(c, "edit_post", index)
        ELSE IF post_to_edit = None
        THEN /\ last' = Served(c, "edit_post", index, submit, form,
                               ServerError("AttributeError"))
             /\ UNCHANGED <<users, posts, comments, session, inflight, registered>>
        ELSE IF ~submit
        THEN /\ last' = Served(c, "edit_post", index, submit, form, Render("make-post.html"))
             /\ UNCHANGED <<users, posts, comments, session, inflight, registered>>
        ELSE IF ~title_unique(title, post_to_edit)
        THEN /\ last' = Served(c, "edit_post", index, submit, form,
                               ServerError("IntegrityError"))
             /\ UNCHANGED <<users, posts, comments, session, inflight, registered>>
        ELSE /\ posts' = [posts EXCEPT ![post_to_edit] =
                   [@ EXCEPT !.title = title, !.subtitle = subtitle, !.date = date,
                             !.img_url = img_url, !.body = body]]
             /\ last' = Served(c, "edit_post", index, submit, form,
                               Redirect("get_all_posts", NoUrl, ""))
             /\ UNCHANGED <<users, comments, session, inflight, registered>>

\* faulty variant: the route is registered without @admin_only
delete_post_undecorated(c, index) ==
    LET post_to_delete == get_post(index)
    IN  IF post_to_delete = None
        THEN /\ last' = Served(c, "delete_post", index, FALSE, NoForm,
                               ServerError("UnmappedInstanceError"))
             /\ UNCHANGED <<users, posts, comments, session, inflight, registered>>
        ELSE /\ posts' = [p \in DOMAIN posts \ {post_to_delete} |-> posts[p]]
             /\ comments' = [k \in DOMAIN comments |->
                   IF comments[k].post_id = post_to_delete
                   THEN [comments[k] EXCEPT !.post_id = None]
                   ELSE comments[k]]
             /\ last' = Served(c, "delete_post", index, FALSE, NoForm,
                               Redirect("get_all_posts", NoUrl, ""))
             /\ UNCHANGED <<users, session, inflight, registered>>

\* faulty variant: the delete is never committed
delete_post_no_commit(c, index) ==
    LET post_to_delete == get_post(index)
    IN  IF admin_only(current_user(c)) # "Allow"
        THEN decorated_function_deny(c, "delete_post", index)
        ELSE IF post_to_delete = None
        THEN /\ last' = Served(c, "delete_post", index, FALSE, NoForm,
                               ServerError("UnmappedInstanceError"))
             /\ UNCHANGED <<users, posts, comments, session, inflight, registered>>
        ELSE /\ last' = Served(c, "delete_post", index, FALSE, NoForm,
                               Redirect("get_all_posts", NoUrl, ""))
             /\ UNCHANGED <<users, posts, comments, session, inflight, registered>>

\* the comments relationship has no delete cascade: the unit of work sets the
\* post_id of the deleted post's comments to NULL and deletes the post row
delete_post(c, index) ==
    LET post_to_delete == get_post(index)
    IN  IF admin_only(current_user(c)) # "Allow"
        THEN decorated_function_deny(c, "delete_post", index)
        ELSE IF post_to_delete = None
        THEN /\ last' = Served(c, "delete_post", index, FALSE, NoForm,
                               ServerError("UnmappedInstanceError"))
             /\ UNCHANGED <<users, posts, comments, session, inflight, registered>>
        ELSE /\ posts' = [p \in DOMAIN posts \ {post_to_delete} |-> posts[p]]
             /\ comments' = [k \in DOMAIN comments |->
                   IF comments[k].post_id = post_to_delete
                   THEN [comments[k] EXCEPT !.post_id = None]
                   ELSE comments[k]]
             /\ last' = Served(c, "delete_post", index, FALSE, NoForm,
                               Redirect("get_all_posts", NoUrl, ""))
             /\ UNCHANGED <<users, session, inflight, registered>>

(* ------------------------------ Spec ----------------------------------- *)
Methods == {"GET", "POST"}

\* submit is form.validate_on_submit() (register: form.validate()): the request is a
\* POST whose fields the validators of forms.py accept. A request that is not a
\* valid submission carries no form data the handler reads.
Next ==
    \E c \in Clients :
        \/ get_all_posts(c)
        \/ about(c)
        \/ \E method \in Methods, sent \in BOOLEAN : contact(c, method, sent)
        \/ \E index \in Indexes :
              \/ show_post(c, index, FALSE, "")
              \/ \E text \in Texts : show_post(c, index, TRUE, text)
        \/ register(c, FALSE, "", "", "", "")
        \/ \E email \in Emails, password \in NewPasswords, name \in Names, salt \in Salts :
              register(c, TRUE, email, password, name, salt)
        \/ login(c, FALSE, "", "")
        \/ \E email \in Emails, password \in Passwords : login(c, TRUE, email, password)
        \/ logout(c)
        \/ new_post(c, FALSE, "", "", "", "", "")
        \/ \E title \in Titles, subtitle \in Subtitles, body \in Bodies,
              img_url \in Images, date \in Dates :
              new_post(c, TRUE, title, subtitle, body, img_url, date)
        \/ \E index \in Indexes :
              \/ edit_post(c, index, FALSE, "", "", "", "", "")
              \/ \E title \in Titles, subtitle \in Subtitles, body \in Bodies,
                    img_url \in Images, date \in Dates :
                    edit_post(c, index, TRUE, title, subtitle, body, img_url, date)
        \/ \E index \in Indexes : delete_post(c, index)

Spec == Init /\ [][Next]_vars

(* ------------------------------ RaceSpec ------------------------------- *)
\* register up to and including the lookup of line 177, served by worker w: the
\* request that finds no user keeps its new_user until the worker commits it
register_lookup(w, c, submit, email, password, name, salt) ==
    /\ inflight[w] = Idle
    /\ IF submit
       THEN LET check_user == find_user_by_email(email)
            IN  IF check_user = None
                THEN /\ inflight' = [inflight EXCEPT ![w] =
                           [client |-> c,
                            new_user |-> [email |-> email,
                                          password |-> generate_password_hash(password, salt),
                                          name |-> name]]]
                     /\ UNCHANGED <<users, posts, comments, session, last, registered>>
                ELSE /\ last' = Served(c, "register", None, TRUE,
                                   [key |-> email, body |-> ""],
                                   Redirect("login", NoUrl,
                                     "You've already signed up with that email, please login."))
                     /\ UNCHANGED <<users, posts, comments, session, inflight, registered>>
       ELSE /\ last' = Served(c, "register", None, FALSE, NoForm, Render("register.html"))
            /\ UNCHANGED <<users, posts, comments, session, inflight, registered>>

\* the rest of register: lines 193 to 195 (or the IntegrityError of the commit)
register_commit(w) ==
    /\ inflight[w] # Idle
    /\ commit_new_user(inflight[w].client, inflight[w].new_user)
    /\ inflight' = [inflight EXCEPT ![w] = Idle]

\* register in its two steps on either worker, with logins and logouts served
\* in between
RaceNext ==
    \/ \E w \in Workers :
          \/ \E c \in Clients :
                \/ register_lookup(w, c, FALSE, "", "", "", "")
                \/ \E email \in Emails, password \in NewPasswords, name \in Names,
                      salt \in Salts :
                      register_lookup(w, c, TRUE, email, password, name, salt)
          \/ register_commit(w)
    \/ \E c \in Clients :
          \/ login(c, FALSE, "", "")
          \/ \E email \in Emails, password \in Passwords : login(c, TRUE, email, password)
          \/ logout(c)

RaceSpec == Init /\ [][RaceNext]_vars

(* ------------------------------ properties ----------------------------- *)
GatedOps == {"new_post", "edit_post", "delete_post"}
Home == Redirect("get_all_posts", NoUrl, "")
StoreUnchanged == UNCHANGED <<users, posts, comments, session>>

\* C1: on the three decorated routes the response is the redirect to login carrying
\* the requested URL exactly for an anonymous identity, the 403 exactly for an
\* authenticated identity other than the admin id, and the route function's own
\* response exactly for the admin id; a denied request changes nothing.
C1_Decision ==
    last.op \in GatedOps =>
        /\ (last.ident = Anonymous) <=>
               (last.resp = Redirect("login", Url(last.op, last.index), ""))
        /\ (last.ident # Anonymous /\ last.ident # ADMIN_ID) <=> (last.resp = Forbidden)
        /\ (last.ident = ADMIN_ID) <=>
               (last.resp.code \in {"200", "500"} \/ last.resp = Home)
C1_DeniedRunsNothing ==
    (last'.op \in GatedOps /\ last'.ident # ADMIN_ID) => StoreUnchanged
C1_AdminGate == []C1_Decision /\ [][C1_DeniedRunsNothing]_vars
C1_Witness ==
    /\ last.op \in GatedOps
    /\ last.ident \in DOMAIN users \ {ADMIN_ID}
    /\ last.resp = Forbidden

\* C2: the blog_posts table changes only in a step that serves new_post, edit_post
\* or delete_post to the admin id; the same requests by any other identity leave
\* the table as it was.
C2_OnlyAdminChangesPosts ==
    [][/\ (posts' # posts) => (last'.op \in GatedOps /\ last'.ident = ADMIN_ID)
       /\ (last'.op \in GatedOps /\ last'.ident # ADMIN_ID) => (posts' = posts)]_vars
C2_Witness ==
    /\ last.op \in GatedOps
    /\ last.ident \in DOMAIN users \ {ADMIN_ID}
    /\ last.index \in DOMAIN posts

\* C3: a valid comment submission by an anonymous identity adds no comment and is
\* answered by the redirect to login, whether or not the post exists.
C3_Redirected ==
    (last.op = "show_post" /\ last.submit /\ last.ident = Anonymous) =>
        (last.resp.code = "302" /\ last.resp.to = "login")
C3_NoComment ==
    (last'.op = "show_post" /\ last'.submit /\ last'.ident = Anonymous) =>
        (comments' = comments)
C3_AnonymousComment == []C3_Redirected /\ [][C3_NoComment]_vars
C3_Witness ==
    /\ last.op = "show_post" /\ last.submit /\ last.ident = Anonymous
    /\ last.index \notin DOMAIN posts
    /\ \E p \in DOMAIN posts : TRUE

\* C4: register with a stored email answers with the flash notice and the redirect
\* to login and adds no row; no two users share an email, and there are as many
\* users as emails registered with success.
C4_Conflict ==
    (last'.op = "register" /\ last'.submit
        /\ \E u \in DOMAIN users : users[u].email = last'.form.key) =>
        /\ users' = users
        /\ last'.resp = Redirect("login", NoUrl,
                          "You've already signed up with that email, please login.")
C4_EmailsUnique ==
    \A u, v \in DOMAIN users : users[u].email = users[v].email => u = v
C4_Count ==
    /\ Cardinality(DOMAIN users) = Cardinality(registered)
    /\ registered = {users[u].email : u \in DOMAIN users}
C4_RegisterUnique == []C4_EmailsUnique /\ []C4_Count /\ [][C4_Conflict]_vars
C4_Witness ==
    /\ last.op = "register"
    /\ last.resp.to = "login"
    /\ \E u \in DOMAIN users : users[u].email = last.form.key

\* C5 as stated: the session leaves Anonymous only by a login with valid
\* credentials, leaves Authenticated(u) only by a logout, to Anonymous, and no
\* other step changes it.
CredentialsMatch(email, password) ==
    \E u \in DOMAIN users :
        users[u].email = email /\ check_password_hash(users[u].password, password)
ValidLogin(req) ==
    req.op = "login" /\ req.submit /\ CredentialsMatch(req.form.key, req.form.body)
C5_AsStated ==
    [][\A c \in Clients :
          /\ (session[c] = Anonymous /\ session'[c] # Anonymous) =>
                 (last'.client = c /\ ValidLogin(last'))
          /\ (session[c] # Anonymous /\ session'[c] # session[c]) =>
                 (last'.client = c /\ last'.op = "logout" /\ session'[c] = Anonymous)]_vars

\* C5 as amended: a login with valid credentials for user u binds the session to u
\* from Anonymous and from any Authenticated(v) alike; a logout makes it Anonymous;
\* a login that fails and every other request leave it as it was; a session that
\* names a user always resolves to that user.
C5_Steps ==
    \A c \in Clients :
        /\ (last'.client = c /\ ValidLogin(last')) =>
               (/\ session'[c] \in DOMAIN users
                /\ users[session'[c]].email = last'.form.key
                /\ last'.resp = Home)
        /\ (last'.client = c /\ last'.op = "login" /\ ~ValidLogin(last')) =>
               (session'[c] = session[c] /\ last'.resp # Home)
        /\ (last'.client = c /\ last'.op = "logout") => (session'[c] = Anonymous)
        /\ (last'.client # c \/ last'.op \notin {"login", "logout"}) =>
               (session'[c] = session[c])
C5_Resolves ==
    \A c \in Clients : current_user(c) = session[c]
C5_Session == []C5_Resolves /\ [][C5_Steps]_vars
C5_Witness ==
    /\ last.op = "login"
    /\ last.ident # Anonymous
    /\ session[last.client] \notin {Anonymous, last.ident}

\* C6: every comment's author_id is the key of a user and its post_id the key of
\* a post.
C6_ReferencesResolve ==
    \A k \in DOMAIN comments :
        /\ comments[k].author_id \in DOMAIN users
        /\ comments[k].post_id \in DOMAIN posts

\* C7 as stated: once delete_post has removed post i, get_post(i) finds nothing in
\* every later state. It is enough to look one request past the delete.
C7_AsStated ==
    [][(last.op = "delete_post" /\ last.resp = Home) =>
          (last.index \notin DOMAIN posts')]_vars

\* C7 as amended: the admin's delete of a stored post i removes exactly that row
\* (it is not listed and get_post(i) finds nothing) and leaves every other row as
\* it was; the delete of an id that is not stored fails and changes nothing; and
\* an id that is not stored comes into use only by the admin's new_post, as the
\* next key of the table.
C7_DeleteStep ==
    (last'.op = "delete_post" /\ last'.ident = ADMIN_ID) =>
        IF last'.index \in DOMAIN posts
        THEN /\ DOMAIN posts' = DOMAIN posts \ {last'.index}
             /\ \A p \in DOMAIN posts' : posts'[p] = posts[p]
             /\ \A n \in 1 .. Len(all_posts') : all_posts'[n] # last'.index
             /\ last'.resp = Home
        ELSE /\ UNCHANGED <<users, posts, comments, session>>
             /\ last'.resp = ServerError("UnmappedInstanceError")
C7_ComesBack ==
    \A i \in Indexes :
        (i \notin DOMAIN posts /\ i \in DOMAIN posts') =>
            (last'.op = "new_post" /\ last'.ident = ADMIN_ID /\ i = NextId(posts))
C7_Delete == [][C7_DeleteStep /\ C7_ComesBack]_vars
C7_Witness ==
    /\ last.op = "delete_post" /\ last.resp = Home
    /\ last.index \notin DOMAIN posts
    /\ \E p \in DOMAIN posts : TRUE

\* C8: no two posts have the same title; the admin's new_post with a stored title
\* fails and adds nothing, and the admin's edit_post to the title of another post
\* changes nothing.
C8_NoTwoAlike ==
    \A p, q \in DOMAIN posts : posts[p].title = posts[q].title => p = q
C8_Refused ==
    /\ (last'.op = "new_post" /\ last'.submit /\ last'.ident = ADMIN_ID
           /\ \E p \in DOMAIN posts : posts[p].title = last'.form.key) =>
           (posts' = posts /\ last'.resp = ServerError("IntegrityError"))
    /\ (last'.op = "edit_post" /\ last'.submit /\ last'.ident = ADMIN_ID
           /\ \E p \in DOMAIN posts \ {last'.index} : posts[p].title = last'.form.key) =>
           (posts' = posts)
C8_TitlesUnique == []C8_NoTwoAlike /\ [][C8_Refused]_vars
C8_Witness ==
    /\ last.op = "edit_post" /\ last.submit
    /\ last.index \in DOMAIN posts
    /\ \E p \in DOMAIN posts \ {last.index} : posts[p].title = last.form.key

\* C9: a valid comment submission by an authenticated user on a stored post adds
\* exactly one comment, with the submitted text, the current user as author and
\* that post as parent, and changes no other comment, no post and no user.
C9_CommentAdded ==
    [][(last'.op = "show_post" /\ last'.submit /\ last'.ident # Anonymous
           /\ last'.index \in DOMAIN posts) =>
          (/\ \E k \in DOMAIN comments' \ DOMAIN comments :
                 /\ DOMAIN comments' = DOMAIN comments \cup {k}
                 /\ comments'[k] = [author_id |-> last'.ident,
                                    post_id |-> last'.index,
                                    text |-> last'.form.key]
           /\ \A j \in DOMAIN comments : comments'[j] = comments[j]
           /\ UNCHANGED <<users, posts>>)]_vars
C9_Witness ==
    /\ last.op = "show_post" /\ last.submit /\ last.ident # Anonymous
    /\ last.index \in DOMAIN posts
    /\ Cardinality(DOMAIN comments) = MaxComments
    /\ \E k \in DOMAIN comments : comments[k].author_id # last.ident

\* C10: when register requests interleave between lookup and commit, no two users
\* ever share an email; the commit of a request whose email has been stored in
\* the meantime ends in the store's error and adds no row, and the commit of a
\* request whose email is still free adds exactly one row. A lookup waits for
\* no other worker.
C10_NoTwoAlike ==
    \A u, v \in DOMAIN users : users[u].email = users[v].email => u = v
C10_Commit ==
    \A w \in Workers :
        (inflight[w] # Idle /\ inflight'[w] = Idle) =>
            IF \E u \in DOMAIN users : users[u].email = inflight[w].new_user.email
            THEN users' = users /\ last'.resp = ServerError("IntegrityError")
            ELSE /\ Cardinality(DOMAIN users') = Cardinality(DOMAIN users) + 1
                 /\ last'.resp = Home
C10_NoLock ==
    \A w \in Workers, c \in Clients, email \in Emails :
        inflight[w] = Idle =>
            \E password \in NewPasswords, name \in Names, salt \in Salts :
                ENABLED register_lookup(w, c, TRUE, email, password, name, salt)
C10_Race == []C10_NoTwoAlike /\ []C10_NoLock /\ [][C10_Commit]_vars
C10_Witness ==
    /\ last.op = "register"
    /\ last.resp = ServerError("IntegrityError")
    /\ \E w \in Workers : inflight[w] # Idle

====
